---- MODULE Spec2Model ----
(***************************************************************************)
(* A model of src/summary/summary.py, the "summary" plugin of lightningd.  *)
(*                                                                         *)
(* Three threads share the module globals: PeerThread (the availability    *)
(* sampler), PriceThread (the fiat price poller) and the plugin's main     *)
(* thread, which serves the "summary" method one request at a time.        *)
(* CPython switches threads between bytecodes, so every access to a shared *)
(* global (peerstate, plugin.fiat_per_btc) is a step of its own here; the  *)
(* thread-local work between two shared accesses belongs to the step of    *)
(* the access that follows it.                                             *)
(*                                                                         *)
(* Floats are modelled as exact rationals <<numerator, denominator>> in    *)
(* lowest terms; time (datetime.now()) is measured in whole sampling       *)
(* intervals, that is by the sampler's iteration counter.                  *)
(***************************************************************************)
EXTENDS Integers, Sequences, FiniteSets

----------------------------------------------------------------------------
(* Exact rational arithmetic standing for Python's float arithmetic.       *)

\* The greatest common divisor, as a function so that its arguments are
\* values when it recurs.
GCDf[p \in Nat \X Nat] == IF p[2] = 0 THEN p[1] ELSE GCDf[<<p[2], p[1] % p[2]>>]
GCD(a, b) == GCDf[<<a, b>>]

\* n/d in lowest terms (d > 0, n >= 0).
Rat(n, d) == LET g == GCD(n, d) IN <<n \div g, d \div g>>

Zero == Rat(0, 1)
One == Rat(1, 1)

\* x + y, over the least common denominator.
RatAdd(x, y) ==
    LET g == GCD(x[2], y[2])
    IN  Rat(x[1] * (y[2] \div g) + y[1] * (x[2] \div g), (x[2] \div g) * y[2])

\* x - y, for y <= x.
RatSub(x, y) ==
    LET g == GCD(x[2], y[2])
    IN  Rat(x[1] * (y[2] \div g) - y[1] * (x[2] \div g), (x[2] \div g) * y[2])

\* x * y, cancelling across before multiplying.
RatMul(x, y) ==
    LET g1 == GCD(x[1], y[2])
        g2 == GCD(y[1], x[2])
    IN  IF x[1] = 0 \/ y[1] = 0 THEN Zero
        ELSE <<(x[1] \div g1) * (y[1] \div g2), (x[2] \div g2) * (y[2] \div g1)>>

\* x / y for integers, as a rational (Python's true division).
RatDiv(a, b) == Rat(a, b)

\* x <= y for non-negative rationals, by continued fractions (no products).
RECURSIVE RatLe(_, _)
RatLe(x, y) ==
    LET qx == x[1] \div x[2]
        qy == y[1] \div y[2]
        rx == x[1] % x[2]
        ry == y[1] % y[2]
    IN  IF qx # qy THEN qx < qy
        ELSE IF rx = 0 THEN TRUE
        ELSE IF ry = 0 THEN FALSE
        ELSE RatLe(<<y[2], ry>>, <<x[2], rx>>)

RatLt(x, y) == RatLe(x, y) /\ x # y

\* <<floor(k*n/d), (k*n) mod d>> for 0 <= n <= d, by doubling (no products).
RECURSIVE MulDiv(_, _, _)
MulDiv(k, n, d) ==
    IF k = 0 THEN <<0, 0>>
    ELSE LET h == MulDiv(k \div 2, n, d)
             r2 == 2 * h[2]
             q2 == 2 * h[1] + (IF r2 >= d THEN 1 ELSE 0)
             s2 == IF r2 >= d THEN r2 - d ELSE r2
             r3 == IF k % 2 = 1 THEN s2 + n ELSE s2
         IN  <<q2 + (IF r3 >= d THEN 1 ELSE 0), IF r3 >= d THEN r3 - d ELSE r3>>

\* Python's round(): to the nearest integer, a tie to the even one.
RoundHalfEven(k, x) ==
    LET qr == MulDiv(k, x[1], x[2])
        q == qr[1]
        twice == 2 * qr[2]
    IN  IF twice < x[2] THEN q
        ELSE IF twice > x[2] THEN q + 1
        ELSE IF q % 2 = 0 THEN q ELSE q + 1

----------------------------------------------------------------------------
(* Program constants.                                                      *)

interval == 300
window == 259200
BarWidth == 23

(* Bounds of the model.                                                    *)

\* Sampler iterations followed from the initial state.
MaxTicks == 2
\* Channels in one listpeers answer, over all its peers.
MaxChans == 2

\* The peers of the node, in the order listpeers lists them.
PeerSeq == <<"02aa", "03bb">>
Peers == {PeerSeq[i] : i \in 1..Len(PeerSeq)}

\* The iteration counts a run starts from: a fresh process, and a process
\* whose sampler has completed LongRun iterations that listed no peer (the
\* peer map is still empty then), one iteration before the window is full.
LongRun == (window \div interval) - 1
StartCounts == {0, LongRun}
TickCounts == UNION {(s + 1)..(s + MaxTicks) : s \in StartCounts}

Min(a, b) == IF a < b THEN a ELSE b
Max(a, b) == IF a > b THEN a ELSE b

----------------------------------------------------------------------------
VARIABLES
    peerstate,      \* the global peerstate: peer id -> entry
    fiat_per_btc,   \* plugin.fiat_per_btc
    have_utf8,      \* the charset switch, fixed when the module is loaded
    count,          \* PeerThread.run: iterations begun
    pcS,            \* PeerThread.run: where the thread is
    pcP,            \* PriceThread.run: where the thread is
    peersS,         \* PeerThread.run: the peers of this iteration still to do
    availS,         \* PeerThread.run: the availability read for the update
    pcR,            \* summary: where the request is
    req,            \* summary: the locals of the request being served
    reply,          \* summary: the reply being built
    hist,           \* history: what the sampler's ticks have reported and written
    failed          \* history: the sampler iterations whose listpeers raised

vars == <<peerstate, fiat_per_btc, have_utf8, count, pcS, pcP, peersS, availS,
          pcR, req, reply, hist, failed>>

samplerVars == <<count, pcS, peersS, availS>>
otherVars == <<fiat_per_btc, have_utf8, pcP>>

\* datetime.now(), in sampling intervals since the sampler started.
Now == count

NoTime == <<>>

----------------------------------------------------------------------------
(* addpeer                                                                 *)

\* `not pid in peerstate`
addpeer_absent(p) == p.id \notin DOMAIN peerstate

\* The entry addpeer builds for an unseen peer.
addpeer_entry(p) ==
    [connected |-> p.connected,
     last_seen |-> IF p.connected THEN <<Now>> ELSE NoTime,
     availability |-> IF p.connected THEN One ELSE Zero]

\* (a store that keeps no other entry)
StoreEntry_alone(pid, e) == [q \in {pid} |-> e]

\* peerstate[pid] = e
StoreEntry(pid, e) ==
    [q \in DOMAIN peerstate \cup {pid} |-> IF q = pid THEN e ELSE peerstate[q]]

\* peerstate[pid][field] = v
StoreField(pid, field, v) ==
    [peerstate EXCEPT ![pid] = [peerstate[pid] EXCEPT ![field] = v]]

----------------------------------------------------------------------------
(* PeerThread.run                                                          *)

\* (a sampler without warm-up: the full window from the first iteration)
leadwin_fixed(n) == window

leadwin(n) == Max(Min(window, n * interval), interval)
samples(n) == RatDiv(leadwin(n), interval)
alpha(n) == RatDiv(samples(n)[2], samples(n)[1])
beta(n) == RatSub(One, alpha(n))

\* (an update that does not scale the old estimate by beta)
Smooth_unscaled(sample, a, n) == RatAdd(RatMul(sample, alpha(n)), a)

\* sample * alpha + availability * beta
Smooth(sample, a, n) == RatAdd(RatMul(sample, alpha(n)), RatMul(a, beta(n)))

\* The answers of listpeers the sampler may get: any of the node's peers,
\* each connected or not.
PeerList(S, conn) ==
    LET ids == SelectSeq(PeerSeq, LAMBDA q : q \in S)
    IN  [i \in 1..Len(ids) |-> [id |-> ids[i], connected |-> conn[ids[i]]]]

SamplerLists == {PeerList(S, conn) : S \in SUBSET Peers, conn \in [Peers -> BOOLEAN]}

\* Per peer: whether some iteration listed it connected, and disconnected;
\* the availability the last iteration that listed it read, and wrote.
NoHist == [p \in Peers |-> [conn |-> FALSE, disc |-> FALSE, read |-> <<>>, written |-> <<>>]]

\* After the statement for one peer: the next peer, or sleep.
AfterPeer == IF Len(peersS) > 1 THEN "addpeer" ELSE "sleep"

\* The update branch for the peer at hand.
UpdateBranch(p) == IF p.connected THEN "last_seen" ELSE "connected"

\* (a failed fetch taken for "no peer is connected")
PeerTickFail_disconnects ==
    /\ pcS = "sleep"
    /\ count + 1 \in TickCounts
    /\ count' = count + 1
    /\ pcS' = "except"
    /\ failed' = failed + 1
    /\ peerstate' = [q \in DOMAIN peerstate |-> [peerstate[q] EXCEPT !.connected = FALSE]]
    /\ UNCHANGED <<fiat_per_btc, have_utf8, pcP, peersS, availS, hist>>
    /\ UNCHANGED <<pcR, req, reply>>

\* count += 1; listpeers raises.
PeerTickFail ==
    /\ pcS = "sleep"
    /\ count + 1 \in TickCounts
    /\ count' = count + 1
    /\ pcS' = "except"
    /\ failed' = failed + 1
    /\ UNCHANGED <<peerstate, fiat_per_btc, have_utf8, pcP, peersS, availS, hist>>
    /\ UNCHANGED <<pcR, req, reply>>

\* plugin.log(...) in the handler, then sleep.
PeerTickWarn ==
    /\ pcS = "except"
    /\ pcS' = "sleep"
    /\ UNCHANGED <<peerstate, fiat_per_btc, have_utf8, pcP, count, peersS, availS, hist, failed>>
    /\ UNCHANGED <<pcR, req, reply>>

\* count += 1; listpeers answers.
PeerTickFetch ==
    /\ pcS = "sleep"
    /\ count + 1 \in TickCounts
    /\ \E l \in SamplerLists :
          /\ peersS' = l
          /\ pcS' = IF l = <<>> THEN "sleep" ELSE "addpeer"
    /\ count' = count + 1
    /\ UNCHANGED <<peerstate, fiat_per_btc, have_utf8, pcP, availS, hist, failed>>
    /\ UNCHANGED <<pcR, req, reply>>

\* addpeer(p): the membership test.
PeerAddpeerTest ==
    /\ pcS = "addpeer"
    /\ pcS' = IF addpeer_absent(Head(peersS)) THEN "store"
              ELSE UpdateBranch(Head(peersS))
    /\ UNCHANGED <<peerstate, fiat_per_btc, have_utf8, pcP, count, peersS, availS, hist, failed>>
    /\ UNCHANGED <<pcR, req, reply>>

\* addpeer(p): the store of the new entry.
PeerAddpeerStore ==
    /\ pcS = "store"
    /\ peerstate' = StoreEntry(Head(peersS).id, addpeer_entry(Head(peersS)))
    /\ pcS' = UpdateBranch(Head(peersS))
    /\ UNCHANGED <<fiat_per_btc, have_utf8, pcP, count, peersS, availS, hist, failed>>
    /\ UNCHANGED <<pcR, req, reply>>

\* peerstate[pid]['last_seen'] = datetime.now()
PeerLastSeen ==
    /\ pcS = "last_seen"
    /\ peerstate' = StoreField(Head(peersS).id, "last_seen", <<Now>>)
    /\ pcS' = "connected"
    /\ UNCHANGED <<fiat_per_btc, have_utf8, pcP, count, peersS, availS, hist, failed>>
    /\ UNCHANGED <<pcR, req, reply>>

\* peerstate[pid]['connected'] = True / False
PeerConnected ==
    /\ pcS = "connected"
    /\ peerstate' = StoreField(Head(peersS).id, "connected", Head(peersS).connected)
    /\ pcS' = "avail_read"
    /\ UNCHANGED <<fiat_per_btc, have_utf8, pcP, count, peersS, availS, hist, failed>>
    /\ UNCHANGED <<pcR, req, reply>>

\* The right-hand side of the availability update: the read.
PeerAvailRead ==
    /\ pcS = "avail_read"
    /\ availS' = peerstate[Head(peersS).id].availability
    /\ pcS' = "avail_write"
    /\ UNCHANGED <<peerstate, fiat_per_btc, have_utf8, pcP, count, peersS, hist, failed>>
    /\ UNCHANGED <<pcR, req, reply>>

\* The availability update: the store of sample * alpha + availability * beta.
PeerAvailWrite ==
    /\ pcS = "avail_write"
    /\ LET p == Head(peersS)
           a == Smooth(IF p.connected THEN One ELSE Zero, availS, count)
       IN  /\ peerstate' = StoreField(p.id, "availability", a)
           /\ hist' = [hist EXCEPT ![p.id] =
                          [conn |-> @.conn \/ p.connected,
                           disc |-> @.disc \/ ~p.connected,
                           read |-> <<availS>>,
                           written |-> <<a>>]]
    /\ availS' = Zero
    /\ peersS' = Tail(peersS)
    /\ pcS' = AfterPeer
    /\ UNCHANGED <<fiat_per_btc, have_utf8, pcP, count, failed>>
    /\ UNCHANGED <<pcR, req, reply>>

PeerThread ==
    \/ PeerTickFail
    \/ PeerTickWarn
    \/ PeerTickFetch
    \/ PeerAddpeerTest
    \/ PeerAddpeerStore
    \/ PeerLastSeen
    \/ PeerConnected
    \/ PeerAvailRead
    \/ PeerAvailWrite

----------------------------------------------------------------------------
(* PriceThread.run                                                         *)

\* The prices float(r.json()['last']) may give.
Prices == {9000, 9500}

\* The price at the start: 0 as init() leaves it, or the quote of a refresh
\* that has already succeeded.
StartPrices == {0, 9000}

\* The quote is fetched and parsed: plugin.fiat_per_btc = float(...), then
\* sleep.
PriceRefresh ==
    /\ pcP = "sleep"
    /\ \E x \in Prices : fiat_per_btc' = x
    /\ UNCHANGED <<peerstate, have_utf8, hist, failed, pcP>>
    /\ UNCHANGED samplerVars
    /\ UNCHANGED <<pcR, req, reply>>

\* (a failed refresh that disables the price)
PriceFail_resets ==
    /\ pcP = "sleep"
    /\ pcP' = "except"
    /\ fiat_per_btc' = 0
    /\ UNCHANGED <<peerstate, have_utf8, hist, failed>>
    /\ UNCHANGED samplerVars
    /\ UNCHANGED <<pcR, req, reply>>

\* requests.get, r.json() or float() raises.
PriceFail ==
    /\ pcP = "sleep"
    /\ pcP' = "except"
    /\ UNCHANGED <<peerstate, fiat_per_btc, have_utf8, hist, failed>>
    /\ UNCHANGED samplerVars
    /\ UNCHANGED <<pcR, req, reply>>

\* plugin.log(...) in the handler, then sleep.
PriceWarn ==
    /\ pcP = "except"
    /\ pcP' = "sleep"
    /\ UNCHANGED <<peerstate, fiat_per_btc, have_utf8, hist, failed>>
    /\ UNCHANGED samplerVars
    /\ UNCHANGED <<pcR, req, reply>>

PriceThread ==
    \/ PriceRefresh
    \/ PriceFail
    \/ PriceWarn

----------------------------------------------------------------------------
(* The drawing alphabet.  The box-drawing characters are written by their  *)
(* code points: u255F is the character U+255F.                             *)

Utf8Charset ==
    [double_left |-> "u255F", left |-> "u251C", bar |-> "u2500", mid |-> "u253C",
     right |-> "u2524", double_right |-> "u2562", empty |-> "u2551"]

AsciiCharset ==
    [double_left |-> "#", left |-> "[", bar |-> "-", mid |-> "/",
     right |-> "]", double_right |-> "#", empty |-> "|"]

draw == IF have_utf8 THEN Utf8Charset ELSE AsciiCharset

----------------------------------------------------------------------------
(* The inputs of a summary request.                                        *)

NORMAL == "CHANNELD_NORMAL"

\* The channels a peer may have, without their short channel ids.  Reserves
\* of 1 on both sides: a balance below, at and above the reserve all occur.
\*   awaiting lock-in                     not active
\*   total 100, to_us   0                 ours 0,  theirs 99
\*   total 100, to_us   3                 ours 2,  theirs 96
\*   total 100, to_us 100, private        ours 99, theirs 0
\*   total 100, to_us  50                 ours 49, theirs 49
\*   total   2, to_us   1                 ours 0,  theirs 0
ChannelKind(st, total, to_us, priv) ==
    [state |-> st, private |-> priv, total_msat |-> total, to_us_msat |-> to_us,
     our_reserve_msat |-> 1, their_reserve_msat |-> 1]

ChannelKinds ==
    {ChannelKind("CHANNELD_AWAITING_LOCKIN", 100, 50, FALSE),
     ChannelKind(NORMAL, 100, 0, FALSE),
     ChannelKind(NORMAL, 100, 3, FALSE),
     ChannelKind(NORMAL, 100, 100, TRUE),
     ChannelKind(NORMAL, 100, 50, FALSE),
     ChannelKind(NORMAL, 2, 1, FALSE)}

\* The channels of the requests served while the sampler runs.
ConcKinds ==
    {ChannelKind(NORMAL, 100, 3, FALSE)}

KindSeqs(kinds, n) == UNION {[1..k -> kinds] : k \in 0..n}

\* The short channel id "BxTxO" as <<B, T, O>>: the j-th channel of the i-th
\* peer is <<i, j, 0>>.
Scid(i, j) == <<i, j, 0>>

PeerIndex(pid) == CHOOSE i \in 1..Len(PeerSeq) : PeerSeq[i] = pid

RECURSIVE SumLen(_, _)
SumLen(chs, i) == IF i = 0 THEN 0 ELSE Len(chs[PeerSeq[i]]) + SumLen(chs, i - 1)

\* One peer of a listpeers answer.
SnapshotPeer(pid, conn, ks) ==
    [id |-> pid, connected |-> conn,
     channels |-> [j \in 1..Len(ks) |->
                     [state |-> ks[j].state,
                      short_channel_id |-> Scid(PeerIndex(pid), j),
                      private |-> ks[j].private,
                      total_msat |-> ks[j].total_msat,
                      to_us_msat |-> ks[j].to_us_msat,
                      our_reserve_msat |-> ks[j].our_reserve_msat,
                      their_reserve_msat |-> ks[j].their_reserve_msat]]]

\* The listpeers answers: any of the peers in S, each connected or not, with
\* at most n channels between them.
Snapshots(S, kinds, n) ==
    {LET ids == SelectSeq(PeerSeq, LAMBDA q : st[q] # "absent")
     IN  [i \in 1..Len(ids) |->
            SnapshotPeer(ids[i], st[ids[i]] = "connected", chs[ids[i]])] :
       st \in {t \in [Peers -> {"absent", "connected", "disconnected"}] :
                 \A q \in Peers \ S : t[q] = "absent"},
       chs \in {c \in [Peers -> KindSeqs(kinds, n)] : SumLen(c, Len(PeerSeq)) <= n}}

ReportSnapshots == Snapshots(Peers, ChannelKinds, MaxChans)

\* The requests served while the sampler runs list the first peer alone.
ConcSnapshots == Snapshots({PeerSeq[1]}, ConcKinds, MaxChans - 1)

\* The {exclude} parameter: a list of short channel ids.
ReportExcludes == SUBSET {Scid(1, 1), Scid(2, 1)}
ConcExcludes == {{}}

\* The listfunds answer: a confirmed output and an unconfirmed one.
ReportFunds ==
    {<<[amount_msat |-> 7000, status |-> "confirmed"],
       [amount_msat |-> 3000, status |-> "unconfirmed"]>>}

\* listnodes: the nodes of the gossip graph that announce an alias.
NodeAlias == [p \in {PeerSeq[1]} |-> "ALICE"]

----------------------------------------------------------------------------
(* msat_to_approx_str, append_header and the bar of one channel            *)

\* log10(x) raises for x <= 0: msat_to_approx_str has no result there.
msat_to_approx_str_raises(msat) == msat <= 0

\* The string msat_to_approx_str returns, kept as the amount it abbreviates.
msat_to_approx_str(msat) == <<"approx", msat>>

\* The header line append_header appends.
append_header(max_msat) ==
    [kind |-> "header", left |-> draw.left, short_str |-> msat_to_approx_str(max_msat),
     mid |-> draw.mid, right |-> draw.right]

Rep(ch, n) == [i \in 1..n |-> ch]

\* "{:>23}".format(s) and "{:23}".format(s)
Rjust(str, w) == Rep(" ", w - Len(str)) \o str
Ljust(str, w) == str \o Rep(" ", w - Len(str))

\* max(max(int(c[1]), int(c[2])) for c in chans)
RECURSIVE Biggest(_)
Biggest(chans) ==
    IF chans = <<>> THEN 0
    ELSE Max(Max(Head(chans).to_us, Head(chans).to_them), Biggest(Tail(chans)))

\* int(round(x / biggest * 23))
BarLen(x, biggest) == RoundHalfEven(BarWidth, RatDiv(x, biggest))

\* (the left cap drawn in front of our_len bar characters)
BarLeft_uncapped(our_len) ==
    IF our_len = 0 THEN Rjust(<<>>, BarWidth)
    ELSE Rjust(<<draw.left>> \o Rep(draw.bar, our_len), BarWidth)

BarLeft(our_len) ==
    IF our_len = 0 THEN Rjust(<<>>, BarWidth)
    ELSE Rjust(<<draw.left>> \o Rep(draw.bar, our_len - 1), BarWidth)

BarRight(their_len) ==
    IF their_len = 0 THEN Ljust(<<>>, BarWidth)
    ELSE Ljust(Rep(draw.bar, their_len - 1) \o <<draw.right>>, BarWidth)

\* (the two double caps exchanged)
BarMid_swapped(our_len, their_len) ==
    IF their_len = 0
    THEN (IF our_len = 0 THEN draw.empty ELSE draw.double_left)
    ELSE (IF our_len = 0 THEN draw.double_right ELSE draw.mid)

\* (the empty glyph never chosen)
BarMid_noempty(our_len, their_len) ==
    IF their_len = 0 THEN draw.double_right
    ELSE (IF our_len = 0 THEN draw.double_left ELSE draw.mid)

BarMid(our_len, their_len) ==
    IF their_len = 0
    THEN (IF our_len = 0 THEN draw.empty ELSE draw.double_right)
    ELSE (IF our_len = 0 THEN draw.double_left ELSE draw.mid)

\* '{:4.0%}'.format(a): the percentage, rounded.
Percent(a) == RoundHalfEven(100, a)

\* The alias of the node, or the first 32 characters of its id (the ids
\* of the model are shorter than that).
NodeName(pid) == IF pid \in DOMAIN NodeAlias THEN NodeAlias[pid] ELSE pid

\* The table line of one channel.
ChannelLine(c, biggest) ==
    LET our_len == BarLen(c.to_us, biggest)
        their_len == BarLen(c.to_them, biggest)
    IN  [kind |-> "line",
         our_len |-> our_len,
         their_len |-> their_len,
         left |-> BarLeft(our_len),
         mid |-> BarMid(our_len, their_len),
         right |-> BarRight(their_len),
         scid |-> c.scid,
         extra |-> <<IF c.private THEN "P" ELSE "_", IF ~c.connected THEN "O" ELSE "_">>,
         avail |-> Percent(c.availability),
         name |-> NodeName(c.id)]

----------------------------------------------------------------------------
(* summary                                                                 *)

NoReq ==
    [snapshot |-> <<>>, exclude |-> {}, peers |-> <<>>, chs |-> <<>>,
     active_channel |-> FALSE, chans |-> <<>>, avail_out |-> 0, avail_in |-> 0,
     utxo_amount |-> 0, biggest |-> 0, priced |-> FALSE]

\* Millisatoshi.to_btc_str(), with the fiat annotation appended to it (none
\* yet): the amount, and the prices the annotations were computed with.
BtcStr(msat) == [msat |-> msat, fiat |-> <<>>]

\* to_fiatstr(msat), appended.
WithFiat(str, price) == [str EXCEPT !.fiat = @ \o <<price>>]

NoReply ==
    [keys |-> {}, num_utxos |-> 0, utxo_amount |-> BtcStr(0), num_channels |-> 0,
     num_connected |-> 0, num_gossipers |-> 0, avail_out |-> BtcStr(0),
     avail_in |-> BtcStr(0), channels |-> <<>>]

RECURSIVE SumConfirmed(_)
SumConfirmed(outputs) ==
    IF outputs = <<>> THEN 0
    ELSE (IF Head(outputs).status = "confirmed" THEN Head(outputs).amount_msat ELSE 0)
         + SumConfirmed(Tail(outputs))

NumConfirmed(outputs) == Len(SelectSeq(outputs, LAMBDA f : f.status = "confirmed"))

\* (our balance less the reserve, not floored)
ToUs_unfloored(c) == c.to_us_msat - c.our_reserve_msat

\* The balances of a channel after the reserves.
ToUs(c) ==
    IF c.our_reserve_msat < c.to_us_msat THEN c.to_us_msat - c.our_reserve_msat ELSE 0

ToThem(c) ==
    LET to_them == c.total_msat - c.to_us_msat
    IN  IF c.their_reserve_msat < to_them THEN to_them - c.their_reserve_msat ELSE 0

Active(c) == c.state = NORMAL
Excluded(c, exclude) == c.short_channel_id \in exclude

\* What a connected peer's channel adds to num_connected.
ConnectedIncrement(p) == IF p.connected THEN 1 ELSE 0

\* (the exclusion tested before the channel is taken for active)
ChannelReq_exclude_first(r, p, c, avail) ==
    IF ~Active(c) \/ Excluded(c, r.exclude) THEN r
    ELSE [r EXCEPT !.active_channel = TRUE,
                   !.avail_out = @ + ToUs(c),
                   !.avail_in = @ + ToThem(c),
                   !.chans = Append(@, [total |-> c.total_msat,
                                        to_us |-> ToUs(c),
                                        to_them |-> ToThem(c),
                                        id |-> p.id,
                                        private |-> c.private,
                                        connected |-> p.connected,
                                        scid |-> c.short_channel_id,
                                        availability |-> avail])]

\* The body of `for c in p['channels']` on the request's locals.
ChannelReq(r, p, c, avail) ==
    IF ~Active(c) THEN r
    ELSE IF Excluded(c, r.exclude) THEN [r EXCEPT !.active_channel = TRUE]
    ELSE [r EXCEPT !.active_channel = TRUE,
                   !.avail_out = @ + ToUs(c),
                   !.avail_in = @ + ToThem(c),
                   !.chans = Append(@, [total |-> c.total_msat,
                                        to_us |-> ToUs(c),
                                        to_them |-> ToThem(c),
                                        id |-> p.id,
                                        private |-> c.private,
                                        connected |-> p.connected,
                                        scid |-> c.short_channel_id,
                                        availability |-> avail])]

\* (the excluded channels counted too)
ChannelReply_counts_excluded(rep, r, p, c) ==
    IF ~Active(c) THEN rep
    ELSE [rep EXCEPT !.num_connected = @ + ConnectedIncrement(p),
                     !.num_channels = @ + 1]

\* The body of `for c in p['channels']` on the reply.
ChannelReply(rep, r, p, c) ==
    IF ~Active(c) \/ Excluded(c, r.exclude) THEN rep
    ELSE [rep EXCEPT !.num_connected = @ + ConnectedIncrement(p),
                     !.num_channels = @ + 1]

\* `if not active_channel and p['connected']`
Gossiper(r, p) == ~r.active_channel /\ p.connected

\* getinfo, listfunds, listpeers; the utxo fields; the counters at 0.
SummaryBegin(snaps, excls, funds) ==
    /\ pcR = "idle"
    /\ \E l \in snaps, e \in excls, f \in funds :
          /\ req' = [NoReq EXCEPT !.snapshot = l, !.exclude = e, !.peers = l,
                                  !.utxo_amount = SumConfirmed(f)]
          /\ reply' = [NoReply EXCEPT
                          !.keys = {"num_utxos", "utxo_amount", "num_channels",
                                    "num_connected", "num_gossipers"},
                          !.num_utxos = NumConfirmed(f),
                          !.utxo_amount = BtcStr(SumConfirmed(f))]
          /\ pcR' = IF l = <<>> THEN "fiat" ELSE "addpeer"
    /\ UNCHANGED <<peerstate, hist, failed>>
    /\ UNCHANGED samplerVars
    /\ UNCHANGED otherVars

\* addpeer(p): the membership test.
SummaryAddpeerTest ==
    /\ pcR = "addpeer"
    /\ pcR' = IF addpeer_absent(Head(req.peers)) THEN "store" ELSE "channel"
    /\ req' = [req EXCEPT !.chs = Head(req.peers).channels, !.active_channel = FALSE]
    /\ UNCHANGED <<peerstate, reply, hist, failed>>
    /\ UNCHANGED samplerVars
    /\ UNCHANGED otherVars

\* addpeer(p): the store of the new entry.
SummaryAddpeerStore ==
    /\ pcR = "store"
    /\ peerstate' = StoreEntry(Head(req.peers).id, addpeer_entry(Head(req.peers)))
    /\ pcR' = "channel"
    /\ UNCHANGED <<req, reply, hist, failed>>
    /\ UNCHANGED samplerVars
    /\ UNCHANGED otherVars

\* One channel of the peer at hand.
SummaryChannel ==
    /\ pcR = "channel"
    /\ req.chs # <<>>
    /\ LET p == Head(req.peers)
           c == Head(req.chs)
           r == ChannelReq(req, p, c, peerstate[p.id].availability)
       IN  /\ req' = [r EXCEPT !.chs = Tail(req.chs)]
           /\ reply' = ChannelReply(reply, req, p, c)
    /\ UNCHANGED <<peerstate, pcR, hist, failed>>
    /\ UNCHANGED samplerVars
    /\ UNCHANGED otherVars

\* The end of the peer's channels: the gossiper count; the next peer.
SummaryPeerEnd ==
    /\ pcR = "channel"
    /\ req.chs = <<>>
    /\ reply' = [reply EXCEPT !.num_gossipers =
                    IF Gossiper(req, Head(req.peers)) THEN @ + 1 ELSE @]
    /\ req' = [req EXCEPT !.peers = Tail(req.peers)]
    /\ pcR' = IF Len(req.peers) > 1 THEN "addpeer" ELSE "fiat"
    /\ UNCHANGED <<peerstate, hist, failed>>
    /\ UNCHANGED samplerVars
    /\ UNCHANGED otherVars

\* (the annotations appended whatever the price is)
SummaryFiat_always ==
    /\ pcR = "fiat"
    /\ reply' = [reply EXCEPT !.keys = @ \cup {"avail_out", "avail_in"},
                              !.avail_out = BtcStr(req.avail_out),
                              !.avail_in = BtcStr(req.avail_in)]
    /\ req' = [req EXCEPT !.priced = fiat_per_btc > 0]
    /\ pcR' = "fiatstr"
    /\ UNCHANGED <<peerstate, hist, failed>>
    /\ UNCHANGED samplerVars
    /\ UNCHANGED otherVars

\* reply['avail_out'], reply['avail_in']; `if plugin.fiat_per_btc > 0`, with
\* the outcome of the test kept in priced.
SummaryFiat ==
    /\ pcR = "fiat"
    /\ reply' = [reply EXCEPT !.keys = @ \cup {"avail_out", "avail_in"},
                              !.avail_out = BtcStr(req.avail_out),
                              !.avail_in = BtcStr(req.avail_in)]
    /\ req' = [req EXCEPT !.priced = fiat_per_btc > 0]
    /\ pcR' = IF fiat_per_btc > 0 THEN "fiatstr" ELSE "render"
    /\ UNCHANGED <<peerstate, hist, failed>>
    /\ UNCHANGED samplerVars
    /\ UNCHANGED otherVars

\* The three to_fiatstr annotations, one statement each: every to_fiatstr
\* call reads plugin.fiat_per_btc anew.
SummaryFiatStr ==
    /\ pcR \in {"fiatstr", "fiatstr_out", "fiatstr_in"}
    /\ reply' = IF pcR = "fiatstr"
                THEN [reply EXCEPT !.utxo_amount = WithFiat(@, fiat_per_btc)]
                ELSE IF pcR = "fiatstr_out"
                THEN [reply EXCEPT !.avail_out = WithFiat(@, fiat_per_btc)]
                ELSE [reply EXCEPT !.avail_in = WithFiat(@, fiat_per_btc)]
    /\ pcR' = IF pcR = "fiatstr" THEN "fiatstr_out"
              ELSE IF pcR = "fiatstr_out" THEN "fiatstr_in"
              ELSE "render"
    /\ UNCHANGED <<peerstate, req, hist, failed>>
    /\ UNCHANGED samplerVars
    /\ UNCHANGED otherVars

\* `if chans != []`: the table.  msat_to_approx_str raises when biggest is 0
\* and the request fails.
SummaryRender ==
    /\ pcR = "render"
    /\ LET biggest == Biggest(req.chans)
       IN  IF req.chans = <<>>
           THEN /\ reply' = [reply EXCEPT !.keys = @ \cup {"format-hint"}]
                /\ req' = req
                /\ pcR' = "done"
           ELSE IF msat_to_approx_str_raises(biggest)
           THEN /\ reply' = [reply EXCEPT
                               !.keys = @ \cup {"channels_flags", "channels"},
                               !.channels = <<[kind |-> "newline"]>>]
                /\ req' = [req EXCEPT !.biggest = biggest]
                /\ pcR' = "failed"
           ELSE /\ reply' = [reply EXCEPT
                               !.keys = @ \cup {"channels_flags", "channels", "format-hint"},
                               !.channels =
                                   <<[kind |-> "newline"], append_header(biggest)>>
                                   \o [i \in 1..Len(req.chans) |->
                                         ChannelLine(req.chans[i], biggest)]]
                /\ req' = [req EXCEPT !.biggest = biggest]
                /\ pcR' = "done"
    /\ UNCHANGED <<peerstate, hist, failed>>
    /\ UNCHANGED samplerVars
    /\ UNCHANGED otherVars

\* `return reply`, or the exception reaches the caller; the next request.
SummaryReturn ==
    /\ pcR \in {"done", "failed"}
    /\ pcR' = "idle"
    /\ req' = NoReq
    /\ reply' = NoReply
    /\ UNCHANGED <<peerstate, hist, failed>>
    /\ UNCHANGED samplerVars
    /\ UNCHANGED otherVars

SummarySteps ==
    \/ SummaryAddpeerTest
    \/ SummaryAddpeerStore
    \/ SummaryChannel
    \/ SummaryPeerEnd
    \/ SummaryFiat
    \/ SummaryFiatStr
    \/ SummaryRender
    \/ SummaryReturn

----------------------------------------------------------------------------
(* The specifications.                                                     *)

\* The state after init(): no peer seen, no price, both threads started and
\* asleep; or the same process after LongRun iterations without a peer, or
\* after a first refresh of the price.
Init ==
    /\ peerstate = <<>>
    /\ fiat_per_btc \in StartPrices
    /\ have_utf8 \in BOOLEAN
    /\ count \in StartCounts
    /\ pcS = "sleep"
    /\ pcP = "sleep"
    /\ peersS = <<>>
    /\ availS = Zero
    /\ pcR = "idle"
    /\ req = NoReq
    /\ reply = NoReply
    /\ hist = NoHist
    /\ failed = 0

\* The sampler and the requests, interleaved, while the price thread sleeps
\* after its first refresh (six hours between two refreshes), with the UTF-8
\* alphabet.
InitSampler == Init /\ have_utf8 /\ fiat_per_btc > 0

Next ==
    \/ PeerThread
    \/ SummaryBegin(ConcSnapshots, ConcExcludes, {<<>>})
    \/ SummarySteps

Spec == InitSampler /\ [][Next]_vars

\* The requests served while both background threads sleep (the sampler
\* sleeps one interval before its first iteration).
InitReport == Init /\ count = 0

NextReport ==
    \/ SummaryBegin(ReportSnapshots, ReportExcludes, ReportFunds)
    \/ SummarySteps

SpecReport == InitReport /\ [][NextReport]_vars

\* The price thread and the requests, interleaved, while the sampler sleeps.
NextPrice ==
    \/ PriceThread
    \/ SummaryBegin(ConcSnapshots, ConcExcludes, ReportFunds)
    \/ SummarySteps

SpecPrice == InitReport /\ [][NextPrice]_vars

\* Both background threads, scheduled fairly: a thread that can take a step
\* is not kept from it for ever (its sleep ends, its rpc call returns or
\* raises).  The peer map at the start is empty, or has the entry a request
\* served before the sampler's iteration has inserted for the first peer.
StartEntries ==
    {addpeer_entry([id |-> PeerSeq[1], connected |-> c]) : c \in BOOLEAN}

InitLive ==
    /\ count \in StartCounts
    /\ peerstate \in {<<>>} \cup {[q \in {PeerSeq[1]} |-> e] : e \in StartEntries}
    /\ fiat_per_btc \in StartPrices
    /\ have_utf8 = TRUE
    /\ pcS = "sleep"
    /\ pcP = "sleep"
    /\ peersS = <<>>
    /\ availS = Zero
    /\ pcR = "idle"
    /\ req = NoReq
    /\ reply = NoReply
    /\ hist = NoHist
    /\ failed = 0

NextLive ==
    \/ PeerThread
    \/ PriceThread

Fairness == WF_vars(PeerThread) /\ WF_vars(PriceThread)

SpecLive == InitLive /\ [][NextLive]_vars /\ Fairness

----------------------------------------------------------------------------
(* The peer loop of summary run to its end on a listpeers answer: the      *)
(* request's locals and the reply's counters it ends with.                 *)

RECURSIVE LoopChannels(_, _, _)
LoopChannels(st, p, chs) ==
    IF chs = <<>> THEN st
    ELSE LoopChannels([r |-> ChannelReq(st.r, p, Head(chs), Zero),
                       rep |-> ChannelReply(st.rep, st.r, p, Head(chs))],
                      p, Tail(chs))

RECURSIVE LoopPeers(_, _)
LoopPeers(st, peers) ==
    IF peers = <<>> THEN st
    ELSE LET p == Head(peers)
             s1 == LoopChannels([r |-> [st.r EXCEPT !.active_channel = FALSE],
                                 rep |-> st.rep], p, p.channels)
             s2 == [r |-> s1.r,
                    rep |-> [s1.rep EXCEPT !.num_gossipers =
                                IF Gossiper(s1.r, p) THEN @ + 1 ELSE @]]
         IN  LoopPeers(s2, Tail(peers))

PeerLoop(snapshot, exclude) ==
    LoopPeers([r |-> [NoReq EXCEPT !.exclude = exclude], rep |-> NoReply], snapshot)

----------------------------------------------------------------------------
(* The claims.                                                             *)

InUnit(a) == RatLe(Zero, a) /\ RatLe(a, One)

\* C1: in every reachable state the availability of every entry of the peer
\* map lies in [0, 1].
C1_AvailabilityInUnitInterval ==
    \A p \in DOMAIN peerstate : InUnit(peerstate[p].availability)

\* C1, witness: after ticks and a request, an availability strictly inside.
C1_Witness ==
    \E p \in DOMAIN peerstate :
        /\ RatLt(Zero, peerstate[p].availability)
        /\ RatLt(peerstate[p].availability, One)
        /\ hist[p].written # <<>>
        /\ pcR = "done"

\* C2: no step of a summary request changes the entry of a peer that is in
\* the peer map already.
C2_ReportNeverOverwrites ==
    [][<<pcR, req, reply>>' # <<pcR, req, reply>>
         => \A p \in DOMAIN peerstate :
               p \in DOMAIN peerstate' /\ peerstate'[p] = peerstate[p]]_vars

\* C3: the steps of a sampler iteration whose listpeers call raises leave
\* the peer map as it was.
C3_FailedTickKeepsPeerMap ==
    [][(pcS' # pcS /\ (pcS = "except" \/ pcS' = "except"))
         => peerstate' = peerstate]_vars

\* C3, witness: a failed iteration with a peer map that has entries.
C3_Witness ==
    /\ pcS = "except"
    /\ peerstate # <<>>
    /\ \E p \in DOMAIN peerstate : hist[p].written # <<>>

\* C4: a request with a non-empty list of eligible channels completes with a
\* table whose scale (biggest, the amount given to the money formatter and
\* the divisor of the bar lengths) is > 0.
C4_TableScalePositive ==
    (pcR \in {"done", "failed"} /\ req.chans # <<>>)
        => (pcR = "done" /\ req.biggest > 0 /\ "channels" \in reply.keys)

\* The balance of a channel on one side.
Balance(c, side) == IF side = "out" THEN ToUs(c) ELSE ToThem(c)

\* The balances, on one side, of the active channels of a listpeers answer
\* that the exclusion list names.
RECURSIVE SumExcluded(_, _, _)
SumExcluded(chs, exclude, side) ==
    IF chs = <<>> THEN 0
    ELSE (IF Active(Head(chs)) /\ Excluded(Head(chs), exclude)
          THEN Balance(Head(chs), side) ELSE 0)
         + SumExcluded(Tail(chs), exclude, side)

RECURSIVE SumExcludedPeers(_, _, _)
SumExcludedPeers(peers, exclude, side) ==
    IF peers = <<>> THEN 0
    ELSE SumExcluded(Head(peers).channels, exclude, side)
         + SumExcludedPeers(Tail(peers), exclude, side)

Scids(chans) == [i \in 1..Len(chans) |-> chans[i].scid]
TableLines(table) == SelectSeq(table, LAMBDA l : l.kind = "line")

\* C5: against the same request without exclusions, avail_out and avail_in
\* are lower by the balances of the excluded active channels, the table has
\* the lines of the other channels and of no excluded one, and
\* num_gossipers is the same.
C5_ExclusionRemovesExactly ==
    pcR \in {"render", "done", "failed"} =>
        LET base == PeerLoop(req.snapshot, {})
        IN  /\ reply.avail_out.msat
                 = base.r.avail_out - SumExcludedPeers(req.snapshot, req.exclude, "out")
            /\ reply.avail_in.msat
                 = base.r.avail_in - SumExcludedPeers(req.snapshot, req.exclude, "in")
            /\ reply.num_gossipers = base.rep.num_gossipers
            /\ Scids(req.chans)
                 = SelectSeq(Scids(base.r.chans), LAMBDA x : x \notin req.exclude)
            /\ pcR = "done" => Scids(TableLines(reply.channels)) = Scids(req.chans)

\* C5, witness: a finished report with a table, an excluded active channel
\* with a balance, and a connected peer whose only active channel is excluded.
C5_Witness ==
    /\ pcR = "done"
    /\ "channels" \in reply.keys
    /\ SumExcludedPeers(req.snapshot, req.exclude, "out") > 0
    /\ \E i \in 1..Len(req.snapshot) :
          /\ req.snapshot[i].connected
          /\ Len(req.snapshot[i].channels) = 1
          /\ Active(req.snapshot[i].channels[1])
          /\ Excluded(req.snapshot[i].channels[1], req.exclude)

ConnectedPeers(snapshot) == {i \in 1..Len(snapshot) : snapshot[i].connected}

\* C6: num_connected does not exceed the number of connected peers of the
\* listpeers answer.
C6_NumConnectedCountsPeers ==
    pcR = "done" => reply.num_connected <= Cardinality(ConnectedPeers(req.snapshot))

Blank == Rep(" ", BarWidth)

\* The rendered lines, each with the channel it renders.
Rendered ==
    IF pcR = "done" /\ "channels" \in reply.keys
    THEN {[c |-> req.chans[i], line |-> reply.channels[i + 2]] : i \in 1..Len(req.chans)}
    ELSE {}

FullRight(x) ==
    x.c.to_us = 0 /\ req.biggest > 0 /\ x.c.to_them = req.biggest

\* C7 as stated: a channel with nothing on our side and the biggest balance
\* on theirs has a blank left segment, the double-right-cap in the middle
\* and a full right segment.
C7_FullRightDoubleRightCap ==
    \A x \in Rendered :
        FullRight(x) =>
            /\ x.line.left = Blank
            /\ x.line.mid = draw.double_right
            /\ x.line.right = Rep(draw.bar, BarWidth - 1) \o <<draw.right>>

\* C7 as amended: the same, with the double-left-cap in the middle.
C7_FullRightDoubleLeftCap ==
    \A x \in Rendered :
        FullRight(x) =>
            /\ x.line.left = Blank
            /\ x.line.mid = draw.double_left
            /\ x.line.right = Rep(draw.bar, BarWidth - 1) \o <<draw.right>>

\* C7, witness: such a line, in the UTF-8 alphabet.
C7_Witness ==
    have_utf8 /\ \E x \in Rendered : FullRight(x)

\* C8 as stated: each of the four midpoint glyphs appears exactly for its
\* case of the two bar lengths, and a side is blank exactly when its length
\* is 0.
C8_MidpointIffLengths ==
    \A x \in Rendered :
        LET o == x.line.our_len
            t == x.line.their_len
        IN  /\ (x.line.mid = draw.empty) <=> (o = 0 /\ t = 0)
            /\ (x.line.mid = draw.double_left) <=> (o = 0 /\ t > 0)
            /\ (x.line.mid = draw.double_right) <=> (o > 0 /\ t = 0)
            /\ (x.line.mid = draw.mid) <=> (o > 0 /\ t > 0)
            /\ (x.line.left = Blank) <=> (o = 0)
            /\ (x.line.right = Blank) <=> (t = 0)

\* C8 as amended: the glyph is the alphabet's symbol for the case of the two
\* bar lengths; the empty glyph and the plain midpoint appear for their case
\* only, and so do the two double caps in the UTF-8 alphabet; in the ASCII
\* alphabet, which draws both double caps as '#', the glyph is '#' exactly
\* when one of the two lengths is 0 and the other is not.
C8_MidpointFromLengths ==
    \A x \in Rendered :
        LET o == x.line.our_len
            t == x.line.their_len
        IN  /\ (x.line.mid = draw.empty) <=> (o = 0 /\ t = 0)
            /\ (o = 0 /\ t > 0) => x.line.mid = draw.double_left
            /\ (o > 0 /\ t = 0) => x.line.mid = draw.double_right
            /\ have_utf8 => ((x.line.mid = draw.double_left) => (o = 0 /\ t > 0))
            /\ have_utf8 => ((x.line.mid = draw.double_right) => (o > 0 /\ t = 0))
            /\ ~have_utf8 => ((x.line.mid = "#") <=> ((o = 0) # (t = 0)))
            /\ (x.line.mid = draw.mid) <=> (o > 0 /\ t > 0)
            /\ (x.line.left = Blank) <=> (o = 0)
            /\ (x.line.right = Blank) <=> (t = 0)

\* C8, witness: one table with both double-cap cases, in the ASCII alphabet.
C8_Witness ==
    /\ ~have_utf8
    /\ \E x \in Rendered : x.line.our_len = 0 /\ x.line.their_len > 0
    /\ \E x \in Rendered : x.line.our_len > 0 /\ x.line.their_len = 0

Clamp(x, lo, hi) == Max(lo, Min(x, hi))

\* The iterations the schedule of smoothing factors is examined for.
Horizon == (window \div interval) + MaxTicks

AlphaAt(n) ==
    /\ alpha(n) = <<1, Clamp(n, 1, window \div interval)>>
    /\ interval <= leadwin(n)
    /\ leadwin(n) <= window
    /\ n > 1 => leadwin(n - 1) <= leadwin(n)

\* The sampler stores the availability of the peer at hand.
SamplerWrites == pcS = "avail_write" /\ pcS' # pcS

\* C9: at the n-th iteration alpha is 1 / clamp(n, 1, window / interval) and
\* leadwin is non-decreasing in n within [interval, window] (for the
\* iteration at hand in every step, and for all iterations up to Horizon
\* when the sampler starts); the first iteration stores the sample itself
\* as the availability of every peer it lists.
C9_WarmUpAlpha ==
    [][/\ count' >= 1 => AlphaAt(count')
       /\ (count = 0 /\ count' = 1) => \A n \in 1..Horizon : AlphaAt(n)
       /\ (SamplerWrites /\ count = 1) =>
              peerstate'[Head(peersS).id].availability
                  = (IF Head(peersS).connected THEN One ELSE Zero)]_vars

\* C9, witness: the first iteration has replaced the seed 0.0 a request gave
\* a peer by the sample 1.0.
C9_Witness ==
    /\ count = 1
    /\ \E p \in DOMAIN peerstate :
          /\ hist[p].read = <<Zero>>
          /\ hist[p].written = <<One>>
          /\ peerstate[p].availability = One

\* C10: from one iteration that lists a peer to the next, the availability
\* stored for a peer that every iteration so far listed connected does not
\* decrease and its distance to 1.0 shrinks by the factor beta at least; for
\* a peer every iteration listed disconnected it does not increase and its
\* distance to 0.0 shrinks likewise.
C10_MonotoneConvergence ==
    [][SamplerWrites =>
         LET p == Head(peersS).id
             before == hist[p].written
             after == hist'[p].written[1]
         IN  before # <<>> =>
               /\ ~hist'[p].disc =>
                     /\ RatLe(before[1], after)
                     /\ RatLe(RatSub(One, after),
                              RatMul(beta(count), RatSub(One, before[1])))
               /\ ~hist'[p].conn =>
                     /\ RatLe(after, before[1])
                     /\ RatLe(after, RatMul(beta(count), before[1]))]_vars

\* The sample of the iteration at hand for the peer at hand.
Sample == IF Head(peersS).connected THEN One ELSE Zero

\* An attempt of the price thread: the fetch succeeds or raises.
PriceAttempt == PriceRefresh \/ PriceFail

\* After a failure the loops go on: the sampler begins its next iteration
\* (while the model follows it), the price thread attempts a refresh again
\* and again.
LoopsGoOn ==
    /\ \A n \in TickCounts :
          (n + 1 \in TickCounts) =>
              ((pcS = "except" /\ count = n) ~> (count = n + 1))
    /\ []<><<PriceAttempt>>_vars

\* C11: after a failed sampler iteration or price refresh the loop is not
\* terminated: under fair scheduling it makes another attempt; and an
\* attempt that succeeds after failures updates the state as if none had
\* failed: the sampler stores the availability smoothed with the factor of
\* the iterations that did not fail, a refresh stores the quote it fetched.
C11_LoopsSurviveFailure ==
    /\ LoopsGoOn
    /\ [][/\ SamplerWrites =>
               peerstate'[Head(peersS).id].availability
                   = Smooth(Sample, availS, count - failed)
          /\ fiat_per_btc' # fiat_per_btc =>
               (pcP = "sleep" /\ fiat_per_btc' \in Prices)]_vars

\* C12: a refresh that fails, and its handler, leave plugin.fiat_per_btc as
\* it was; the price changes only in the one step of a refresh that
\* succeeds, to the quote fetched.
C12_FailedRefreshKeepsPrice ==
    [][/\ (pcP = "sleep" /\ pcP' = "except") => fiat_per_btc' = fiat_per_btc
       /\ pcP = "except" => fiat_per_btc' = fiat_per_btc
       /\ fiat_per_btc' # fiat_per_btc =>
              (pcP = "sleep" /\ pcP' = "sleep" /\ fiat_per_btc' \in Prices)]_vars

\* C12, witness: a refresh has failed after one that stored the quote 9500,
\* which is still the price.
C12_Witness == pcP = "except" /\ fiat_per_btc = 9500

\* The number of fiat annotations on utxo_amount, avail_out and avail_in.
Annotations(rep) ==
    <<Len(rep.utxo_amount.fiat), Len(rep.avail_out.fiat), Len(rep.avail_in.fiat)>>

AnnotationPrices(rep) ==
    {rep.utxo_amount.fiat[i] : i \in 1..Len(rep.utxo_amount.fiat)}
    \cup {rep.avail_out.fiat[i] : i \in 1..Len(rep.avail_out.fiat)}
    \cup {rep.avail_in.fiat[i] : i \in 1..Len(rep.avail_in.fiat)}

\* C13: a report has one fiat annotation on each of utxo_amount, avail_out
\* and avail_in if the price its test read was > 0 and none otherwise, and
\* every annotation is computed with a price > 0; while the price is 0 (no
\* refresh has succeeded since init) no reply has an annotation.
C13_FiatIffPricePositive ==
    /\ pcR \in {"render", "done", "failed"} =>
          Annotations(reply) = (IF req.priced THEN <<1, 1, 1>> ELSE <<0, 0, 0>>)
    /\ \A x \in AnnotationPrices(reply) : x > 0
    /\ fiat_per_btc = 0 => Annotations(reply) = <<0, 0, 0>>

\* C13, witness: a report annotated while the price thread refreshed the
\* price: utxo_amount with the quote 9000, avail_in with the quote 9500.
C13_Witness ==
    /\ pcR = "done"
    /\ req.priced
    /\ reply.utxo_amount.fiat = <<9000>>
    /\ reply.avail_in.fiat = <<9500>>

\* The eligible channels of a listpeers answer, in its order: those in state
\* CHANNELD_NORMAL whose short channel id is not excluded.
RECURSIVE EligibleChannels(_, _)
EligibleChannels(peers, exclude) ==
    IF peers = <<>> THEN <<>>
    ELSE SelectSeq(Head(peers).channels,
                   LAMBDA c : c.state = NORMAL /\ c.short_channel_id \notin exclude)
         \o EligibleChannels(Tail(peers), exclude)

\* C14: the table of a report has one line per eligible channel, in the
\* order of the listpeers answer, after a blank line and the header, and
\* num_channels is the number of these lines; a report without an eligible
\* channel has no table, no header and no legend of the flags.
C14_OneLinePerEligibleChannel ==
    LET el == EligibleChannels(req.snapshot, req.exclude)
    IN  /\ pcR = "done" =>
              /\ reply.num_channels = Len(el)
              /\ Len(TableLines(reply.channels)) = Len(el)
              /\ Scids(TableLines(reply.channels))
                     = [i \in 1..Len(el) |-> el[i].short_channel_id]
              /\ IF el = <<>>
                 THEN /\ reply.channels = <<>>
                      /\ reply.keys \cap {"channels", "channels_flags"} = {}
                 ELSE /\ Len(reply.channels) = Len(el) + 2
                      /\ reply.channels[1].kind = "newline"
                      /\ reply.channels[2].kind = "header"
                      /\ {"channels", "channels_flags"} \subseteq reply.keys
        /\ pcR = "failed" => el # <<>>

\* C14, witness: a report with one line, for the channel of the second peer,
\* from an answer whose first peer has a channel that is excluded or not
\* active.
C14_Witness ==
    /\ pcR = "done"
    /\ Len(TableLines(reply.channels)) = 1
    /\ Len(req.snapshot) = 2
    /\ Len(req.snapshot[1].channels) = 1
    /\ Len(req.snapshot[2].channels) = 1
    /\ reply.channels[3].scid = Scid(2, 1)

\* C15: no step removes an entry of the peer map, and a request that reads
\* peerstate[pid]['availability'] for a channel finds an entry for pid,
\* whatever the sampler does meanwhile.
C15_EntriesPersist ==
    /\ [][DOMAIN peerstate \subseteq DOMAIN peerstate']_vars
    /\ []((pcR = "channel" /\ req.chs # <<>>) =>
             Head(req.peers).id \in DOMAIN peerstate)

\* C15, witness: a request at a channel of the first peer while the sampler
\* is about to store the entry of the second peer.
C15_Witness ==
    /\ pcR = "channel"
    /\ req.chs # <<>>
    /\ pcS = "store"
    /\ Head(peersS).id = PeerSeq[2]
    /\ PeerSeq[1] \in DOMAIN peerstate

\* The balances the two bar lengths are examined for.
MaxBalance == 30

\* The bar of x on our side and y on theirs, for the biggest balance b.
BarOf(x, y, b) ==
    BarLeft(BarLen(x, b)) \o <<BarMid(BarLen(x, b), BarLen(y, b))>> \o BarRight(BarLen(y, b))

\* C16: in every table line our_len and their_len are integers in 0..23 and
\* the bar (left segment, midpoint, right segment) is 47 characters wide;
\* and so for all balances 0..b on both sides, for every b up to MaxBalance.
C16_BarWidth ==
    /\ \A x \in Rendered :
          /\ x.line.our_len \in 0..BarWidth
          /\ x.line.their_len \in 0..BarWidth
          /\ Len(x.line.left) = BarWidth
          /\ Len(x.line.right) = BarWidth
          /\ Len(x.line.left \o <<x.line.mid>> \o x.line.right) = 2 * BarWidth + 1
    /\ pcR = "idle" =>
          \A b \in 1..MaxBalance : \A x \in 0..b : \A y \in {0, b \div 2, b} :
              /\ BarLen(x, b) \in 0..BarWidth
              /\ Len(BarOf(x, y, b)) = 2 * BarWidth + 1

\* C16, witness: a line whose left segment is full (our balance is the
\* biggest) next to a line with a partial right segment.
C16_Witness ==
    /\ \E x \in Rendered : x.line.our_len = BarWidth /\ x.line.their_len = 0
    /\ \E x \in Rendered : x.line.their_len \in 1..(BarWidth - 1)

RECURSIVE SumSeq(_)
SumSeq(q) == IF q = <<>> THEN 0 ELSE Head(q) + SumSeq(Tail(q))

\* C17: after the peer loop, the channels collected are the eligible ones
\* of the answer (to_us_msat within 0..total_msat), each with
\* max(0, to_us - our_reserve) on our side and
\* max(0, (total - to_us) - their_reserve) on theirs, neither negative, and
\* avail_out and avail_in are the sums of these.
C17_BalancesAfterReserve ==
    pcR \in {"fiat", "render", "done", "failed"} =>
        LET el == EligibleChannels(req.snapshot, req.exclude)
            out == [i \in 1..Len(el) |-> Max(0, el[i].to_us_msat - el[i].our_reserve_msat)]
            in == [i \in 1..Len(el) |->
                     Max(0, (el[i].total_msat - el[i].to_us_msat) - el[i].their_reserve_msat)]
        IN  /\ Len(req.chans) = Len(el)
            /\ \A i \in 1..Len(el) :
                  /\ el[i].to_us_msat \in 0..el[i].total_msat
                  /\ req.chans[i].to_us = out[i]
                  /\ req.chans[i].to_them = in[i]
                  /\ req.chans[i].to_us >= 0
                  /\ req.chans[i].to_them >= 0
            /\ req.avail_out = SumSeq(out)
            /\ req.avail_in = SumSeq(in)
            /\ pcR # "fiat" =>
                  /\ reply.avail_out.msat = SumSeq(out)
                  /\ reply.avail_in.msat = SumSeq(in)

\* C17, witness: a report over a channel with nothing above the reserve on
\* our side and one with nothing above it on theirs.
C17_Witness ==
    /\ pcR = "done"
    /\ Len(req.chans) = 2
    /\ req.chans[1].to_us = 0 /\ req.chans[1].to_them = 99
    /\ req.chans[2].to_us = 99 /\ req.chans[2].to_them = 0
    /\ req.avail_out = 99 /\ req.avail_in = 99

\* C18: the warm-up of a peer is driven by the sampler iterations since the
\* peer's entry was created, not by the iterations of the process: at the
\* first iteration that samples a peer alpha is 1, so that the availability
\* stored is the sample itself, whatever the entry held before.
C18_WarmUpPerPeer ==
    [][(SamplerWrites /\ hist[Head(peersS).id].written = <<>>) =>
          /\ alpha(count) = One
          /\ peerstate'[Head(peersS).id].availability = Sample]_vars

\* C19: a failed iteration leaves the iteration counter as it was, and the
\* smoothing factor of the n-th iteration that did not fail is
\* 1 / clamp(n, 1, window / interval), however many failed before it.
C19_FailedTickKeepsCounter ==
    [][/\ (pcS = "sleep" /\ pcS' = "except") => count' = count
       /\ SamplerWrites =>
              alpha(count) = <<1, Clamp(count - failed, 1, window \div interval)>>]_vars


====
